---- MODULE Spec2Model ----
(***************************************************************************)
(* Repository acquisition (src/gitingest/repository_clone.py): clone_repo  *)
(* and fetch_remote_branch_list, each run under the deadline guard         *)
(* async_timeout(TIMEOUT), driving external processes (curl, git) through  *)
(* _check_repo_exists, _run_command and check_git_installed.               *)
(*                                                                         *)
(* A string is a sequence of symbols.  A caller-supplied string is spelled *)
(* symbol by symbol where the code inspects it (lstrip, lower, split); an  *)
(* option literal the code writes itself ("--depth=1") is kept whole, as a *)
(* string of one symbol.  Caller-supplied strings are operands: none of    *)
(* them spells an option literal.  An Optional[str] is <<>> (None) or      *)
(* <<s>>.                                                                  *)
(***************************************************************************)
EXTENDS Integers, Sequences, FiniteSets, TLC

VARIABLES req, pc, cmd, elapsed, err, ret, log, disk,
          tasks, files, job, deleted, resp

\* The state of module repository_clone and of the disk it writes.
libVars == <<req, pc, cmd, elapsed, err, ret, log, disk>>

\* The state of the web layer (api/main.py).
webVars == <<tasks, files, job, deleted, resp>>

vars == <<req, pc, cmd, elapsed, err, ret, log, disk, tasks, files, job, deleted, resp>>

\* ------------------------------------------------------------- bounds

\* Time that passes in one step of the clock while a call is suspended.
TickLen == 20

\* TIMEOUT: int = 60
TIMEOUT == 60

\* How many analyses are asked for.
MaxTasks == 2

\* The guarded calls in flight.
Calls == {1, 2}

\* ------------------------------------------------------------ strings

Lit(s) == <<s>>

None == <<>>

Some(s) == <<s>>

\* Python truthiness of an Optional[str]: None and "" are falsy.
Truthy(opt) == opt # None /\ opt[1] # <<>>

\* lstrip that removes one leading ch only (removeprefix for lstrip).
LStripOnce(s, ch) == IF s # <<>> /\ Head(s) = ch THEN Tail(s) ELSE s

RECURSIVE LStrip(_, _)
\* str.lstrip(ch): every leading ch is removed.
LStrip(s, ch) == IF s # <<>> /\ Head(s) = ch THEN LStrip(Tail(s), ch) ELSE s

RECURSIVE RStrip(_, _)
RStrip(s, ch) ==
    IF s # <<>> /\ s[Len(s)] = ch THEN RStrip(SubSeq(s, 1, Len(s) - 1), ch) ELSE s

\* str.strip() on the symbols the outputs use: blanks at both ends.
Strip(s) == RStrip(LStrip(s, " "), " ")

UpperCase == <<"A", "B", "C", "D", "E", "F", "G", "H", "I", "J", "K", "L", "M",
               "N", "O", "P", "Q", "R", "S", "T", "U", "V", "W", "X", "Y", "Z">>

LowerCase == <<"a", "b", "c", "d", "e", "f", "g", "h", "i", "j", "k", "l", "m",
               "n", "o", "p", "q", "r", "s", "t", "u", "v", "w", "x", "y", "z">>

LowerSym(ch) ==
    IF \E i \in 1..Len(UpperCase) : UpperCase[i] = ch
    THEN LowerCase[CHOOSE i \in 1..Len(UpperCase) : UpperCase[i] = ch]
    ELSE ch

\* lower() left out: the comparison is case-sensitive.
LowerLeftOut(s) == s

\* str.lower()
Lower(s) == [i \in 1..Len(s) |-> LowerSym(s[i])]

\* Index of the first occurrence of symbol ch in s, 0 when absent.
IndexOf(s, ch) ==
    IF \E i \in 1..Len(s) : s[i] = ch
    THEN CHOOSE i \in 1..Len(s) : s[i] = ch /\ \A j \in 1..(i - 1) : s[j] # ch
    ELSE 0

RECURSIVE Split(_, _, _)
\* str.split(sep, maxsplit) for a one-symbol separator: empty pieces are kept.
Split(s, sep, maxsplit) ==
    LET i == IndexOf(s, sep)
    IN  IF maxsplit = 0 \/ i = 0
        THEN <<s>>
        ELSE <<SubSeq(s, 1, i - 1)>> \o Split(SubSeq(s, i + 1, Len(s)), sep, maxsplit - 1)

\* str.splitlines(): "\n" stands for a line break; no empty last line.
SplitLines(s) ==
    IF s = <<>>
    THEN <<>>
    ELSE LET parts == Split(s, "\n", Len(s))
         IN  IF parts[Len(parts)] = <<>> THEN SubSeq(parts, 1, Len(parts) - 1) ELSE parts

Digits == <<"0", "1", "2", "3", "4", "5", "6", "7", "8", "9">>

IsDigit(ch) == \E d \in 1..10 : Digits[d] = ch

DigitVal(ch) == (CHOOSE d \in 1..10 : Digits[d] = ch) - 1

RECURSIVE IntOf(_)
\* int(s) for a string of decimal digits.
IntOf(s) ==
    IF s = <<>> THEN 0 ELSE 10 * IntOf(SubSeq(s, 1, Len(s) - 1)) + DigitVal(s[Len(s)])

\* int(s) raises ValueError unless s is a non-empty string of digits.
IsInt(s) == s # <<>> /\ \A i \in 1..Len(s) : IsDigit(s[i])

\* Whether a sequence of strings has arg among its elements.
Has(args, arg) == \E i \in 1..Len(args) : args[i] = arg

RECURSIVE Join(_, _)
\* sep.join(parts)
Join(parts, sep) ==
    IF parts = <<>> THEN <<>>
    ELSE IF Len(parts) = 1 THEN parts[1]
    ELSE parts[1] \o <<sep>> \o Join(Tail(parts), sep)

\* Path(p).parent: the path without its last component; "." for a bare name.
ParentDir(p) ==
    LET comps == SelectSeq(Split(p, "/", Len(p)), LAMBDA x : x # <<>>)
        par   == IF comps = <<>> THEN <<>> ELSE SubSeq(comps, 1, Len(comps) - 1)
    IN  IF p # <<>> /\ Head(p) = "/"
        THEN <<"/">> \o Join(par, "/")
        ELSE IF par = <<>> THEN <<".">> ELSE Join(par, "/")

\* ------------------------------------------------------------- inputs

Urls == {<<"https://example.com/r.git">>, <<"https://example.com/none">>}

LocalPaths == {<<"/", "tmp", "/", "w", "/", "r1">>, <<"r2">>}

Commits == {None, Some(<<>>), Some(<<"abc123">>)}

Branches ==
    {None, Some(<<>>), Some(<<"m", "a", "i", "n">>), Some(<<"M", "a", "i", "n">>),
     Some(<<"M", "A", "S", "T", "E", "R">>), Some(<<"D", "e", "v">>),
     Some(<<"f", "e", "a", "t", "u", "r", "e", "-", "x">>)}

Subpaths ==
    {<<"/">>, <<>>, <<"/", "src">>, <<"/", "/", "a", "/", "b">>, <<"src", "/">>}

\* Exit statuses of an external process.
ExitCodes == {0, 1, 128}

\* What curl -I prints: the response's status line and headers.
Resp200 == <<"HTTP/1.1", " ", "2", "0", "0", " ", "OK", "\n", "server: x", "\n">>

Resp301 == <<"HTTP/2", " ", "3", "0", "1", " ", "\n", "location: y", "\n">>

Resp404 == <<"HTTP/1.1", " ", "4", "0", "4", " ", "Not", " ", "Found", "\n">>

Resp302 == <<" ", "HTTP/1.1", " ", "3", "0", "2", " ", "Found">>

Resp403 == <<"HTTP/1.1", " ", "4", "0", "3", " ", "Forbidden", "\n">>

Resp500 == <<"HTTP/2", " ", "5", "0", "0", "\n">>

\* Not a status line: two blanks before the code, no code, no output.
RespTwoBlanks == <<"HTTP/1.1", " ", " ", "2", "0", "0", " ", "OK", "\n">>

RespNoCode == <<"HTTP/1.1", "\n">>

RespEmpty == <<>>

ProbeOutputs ==
    {Resp200, Resp301, Resp404, Resp302, Resp403, Resp500,
     RespTwoBlanks, RespNoCode, RespEmpty}

\* What git ls-remote --heads prints.
LsRemoteOutputs ==
    {<<>>,
     <<"1a2b", "\t", "refs/heads/", "main", "\n">>,
     <<"1a2b", "\t", "refs/heads/", "main", "\n", "\n",
       "3c4d", "\t", "refs/heads/", "dev", "\n">>,
     <<"3c4d", "\t", "refs/heads/", "dev", "\n",
       "1a2b", "\t", "refs/heads/", "main", "\n",
       "3c4d", "\t", "refs/heads/", "dev", "\n">>,
     <<"warning: x", "\n", " ", "\n",
       "5e6f", "\t", "refs/heads/", "r", "/", "refs/heads/", "x", "\n">>}

\* ----------------------------------------------------- pure functions

\* A request: the entry point called and its CloneConfig (or url).
CloneRequests ==
    [entry : {"clone_repo"}, url : Urls, local_path : LocalPaths,
     commit : Commits, branch : Branches, subpath : Subpaths]

FetchRequests ==
    [entry : {"fetch_remote_branch_list"}, url : Urls, local_path : {<<>>},
     commit : {None}, branch : {None}, subpath : {<<"/">>}]

NoRequest ==
    [entry |-> "none", url |-> <<>>, local_path |-> <<>>, commit |-> None,
     branch |-> None, subpath |-> <<"/">>]

\* partial_clone compared with the empty string instead of "/".
PartialCloneEmpty(r) == r.subpath # <<>>

\* partial_clone: bool = config.subpath != "/"
PartialClone(r) == r.subpath # <<"/">>

DefaultBranches == {<<"m", "a", "i", "n">>, <<"m", "a", "s", "t", "e", "r">>}

\* if branch and branch.lower() not in ("main", "master")
SelectsBranch(r) == Truthy(r.branch) /\ Lower(r.branch[1]) \notin DefaultBranches

\* The clone command with the branch test outside of 'if not commit'.
CloneCmdBranchAlways(r) ==
    <<Lit("git"), Lit("clone"), Lit("--recurse-submodules"), Lit("--single-branch")>>
    \o (IF PartialClone(r) THEN <<Lit("--filter=blob:none"), Lit("--sparse")>> ELSE <<>>)
    \o (IF ~Truthy(r.commit) THEN <<Lit("--depth=1")>> ELSE <<>>)
    \o (IF SelectsBranch(r) THEN <<Lit("--branch"), r.branch[1]>> ELSE <<>>)
    \o <<r.url, r.local_path>>

\* The clone command clone_repo builds.
CloneCmd(r) ==
    <<Lit("git"), Lit("clone"), Lit("--recurse-submodules"), Lit("--single-branch")>>
    \o (IF PartialClone(r) THEN <<Lit("--filter=blob:none"), Lit("--sparse")>> ELSE <<>>)
    \o (IF ~Truthy(r.commit)
        THEN <<Lit("--depth=1")>>
             \o (IF SelectsBranch(r) THEN <<Lit("--branch"), r.branch[1]>> ELSE <<>>)
        ELSE <<>>)
    \o <<r.url, r.local_path>>

\* The second command run for a partial clone only.
NeedsCheckoutPartialOnly(r) == PartialClone(r)

\* if commit or partial_clone
NeedsCheckout(r) == Truthy(r.commit) \/ PartialClone(r)

\* The second command with its two parts in the other order.
CheckoutCmdSwapped(r) ==
    <<Lit("git"), Lit("-C"), r.local_path>>
    \o (IF Truthy(r.commit) THEN <<Lit("checkout"), r.commit[1]>> ELSE <<>>)
    \o (IF PartialClone(r)
        THEN <<Lit("sparse-checkout"), Lit("set"), LStrip(r.subpath, "/")>>
        ELSE <<>>)

\* The second command clone_repo builds.
CheckoutCmd(r) ==
    <<Lit("git"), Lit("-C"), r.local_path>>
    \o (IF PartialClone(r)
        THEN <<Lit("sparse-checkout"), Lit("set"), LStrip(r.subpath, "/")>>
        ELSE <<>>)
    \o (IF Truthy(r.commit) THEN <<Lit("checkout"), r.commit[1]>> ELSE <<>>)

CurlCmd(url) == <<Lit("curl"), Lit("-I"), url>>

VersionCmd == <<Lit("git"), Lit("--version")>>

LsRemoteCmd(url) == <<Lit("git"), Lit("ls-remote"), Lit("--heads"), url>>

\* _get_status_code without the strip() of the first line.
GetStatusCodeNoStrip(response) ==
    LET lines == SplitLines(response)
    IN  IF lines = <<>>
        THEN [raise |-> "IndexError", code |-> 0]
        ELSE LET parts == Split(lines[1], " ", 2)
             IN  IF Len(parts) < 2
                 THEN [raise |-> "IndexError", code |-> 0]
                 ELSE IF ~IsInt(parts[2])
                      THEN [raise |-> "ValueError", code |-> 0]
                      ELSE [raise |-> "", code |-> IntOf(parts[2])]

\* _get_status_code: the second blank-separated piece of the first line, as
\* an integer; raise names the exception when there is none.
GetStatusCode(response) ==
    LET lines == SplitLines(response)
    IN  IF lines = <<>>
        THEN [raise |-> "IndexError", code |-> 0]
        ELSE LET parts == Split(Strip(lines[1]), " ", 2)
             IN  IF Len(parts) < 2
                 THEN [raise |-> "IndexError", code |-> 0]
                 ELSE IF ~IsInt(parts[2])
                      THEN [raise |-> "ValueError", code |-> 0]
                      ELSE [raise |-> "", code |-> IntOf(parts[2])]

\* _check_repo_exists with 404 among the statuses it takes for reachable.
CheckRepoExists404(spawned, rc, stdout) ==
    IF ~spawned THEN [raise |-> "FileNotFoundError", value |-> FALSE]
    ELSE IF rc # 0 THEN [raise |-> "", value |-> FALSE]
    ELSE LET sc == GetStatusCode(stdout)
         IN  IF sc.raise # "" THEN [raise |-> sc.raise, value |-> FALSE]
             ELSE IF sc.code \in {200, 301, 404} THEN [raise |-> "", value |-> TRUE]
             ELSE IF sc.code \in {302} THEN [raise |-> "", value |-> FALSE]
             ELSE [raise |-> "UnexpectedProbeStatus", value |-> FALSE]

\* _check_repo_exists once curl has ended: the value returned, or the
\* exception raised.  spawned is FALSE when curl could not be started.
CheckRepoExists(spawned, rc, stdout) ==
    IF ~spawned THEN [raise |-> "FileNotFoundError", value |-> FALSE]
    ELSE IF rc # 0 THEN [raise |-> "", value |-> FALSE]
    ELSE LET sc == GetStatusCode(stdout)
         IN  IF sc.raise # "" THEN [raise |-> sc.raise, value |-> FALSE]
             ELSE IF sc.code \in {200, 301} THEN [raise |-> "", value |-> TRUE]
             ELSE IF sc.code \in {404, 302} THEN [raise |-> "", value |-> FALSE]
             ELSE [raise |-> "UnexpectedProbeStatus", value |-> FALSE]

\* check_git_installed without the returncode test.
CheckGitInstalledNoTest(spawned, rc) == IF ~spawned THEN "ToolMissing" ELSE ""

\* check_git_installed with the FileNotFoundError swallowed.
CheckGitInstalledSwallow(spawned, rc) ==
    IF spawned /\ rc # 0 THEN "ToolMisbehaving" ELSE ""

\* check_git_installed once git --version has ended: "" when it returns.
CheckGitInstalled(spawned, rc) ==
    IF ~spawned THEN "ToolMissing"
    ELSE IF rc # 0 THEN "ToolMisbehaving"
    ELSE ""

\* _run_command without the returncode test.
RunCommandResultNoTest(spawned, rc) == IF ~spawned THEN "FileNotFoundError" ELSE ""

\* _run_command once the requested command has ended: "" when it returns.
RunCommandResult(spawned, rc) ==
    IF ~spawned THEN "FileNotFoundError"
    ELSE IF rc # 0 THEN "CommandFailed"
    ELSE ""

\* line.rsplit("refs/heads/", 1)[1]: what follows the last marker.
BranchOfLast(line) ==
    LET last == CHOOSE i \in 1..Len(line) :
                    line[i] = "refs/heads/" /\ \A j \in (i + 1)..Len(line) : line[j] # "refs/heads/"
    IN  SubSeq(line, last + 1, Len(line))

\* line.split("refs/heads/", 1)[1]
BranchOf(line) == SubSeq(line, IndexOf(line, "refs/heads/") + 1, Len(line))

\* The list fetch_remote_branch_list returns for an output.
ParseBranches(stdout) ==
    LET lines == SplitLines(stdout)
        kept  == SelectSeq(lines,
                     LAMBDA l : Strip(l) # <<>> /\ IndexOf(l, "refs/heads/") # 0)
    IN  [i \in 1..Len(kept) |-> BranchOf(kept[i])]

\* -------------------------------------------------------------- state

\* req:     each call's request (immutable once constructed)
\* pc:      where each call's coroutine is suspended, or how it ended
\* cmd:     the argument list of the _run_command invocation in progress
\* elapsed: time since the deadline guard started the call
\* err:     the failure the call's caller receives
\* ret:     the value fetch_remote_branch_list returns
\* log:     what each call did to the outside world, in order
\* disk:    the directories the calls' paths name

AllPaths == LocalPaths \cup {ParentDir(p) : p \in LocalPaths}

Ev(ev, step, of, argv, rc, out) ==
    [ev |-> ev, step |-> step, of |-> of, argv |-> argv, rc |-> rc, out |-> out]

NoErr == [kind |-> "", step |-> "", of |-> ""]

Error(kind, step, of) == [kind |-> kind, step |-> step, of |-> of]

CheckStages == {"check_clone", "check_checkout", "check_ls"}

CommandStages == {"clone", "checkout", "lsremote"}

\* The suspension points: an external process is awaited at each.
AwaitStages == {"probe"} \cup CheckStages \cup CommandStages

\* The runner invocation a stage belongs to.
InvocationOf(stage) ==
    CASE stage \in {"check_clone", "clone"} -> "clone"
      [] stage \in {"check_checkout", "checkout"} -> "checkout"
      [] stage \in {"check_ls", "lsremote"} -> "lsremote"
      [] OTHER -> stage

\* The stage at which an invocation's tool check is awaited.
CheckStageOf(step) ==
    CASE step = "clone" -> "check_clone"
      [] step = "checkout" -> "check_checkout"
      [] step = "lsremote" -> "check_ls"

\* The external step in progress at a stage.
StepAt(stage) == IF stage \in CheckStages THEN "version" ELSE stage

\* tasks:   the registry `tasks` of api/main.py: task id -> entry
\* files:   the result file of each task id in RESULTS_DIR
\* job:     where each task's background job (process_repo_analysis) is
\* deleted: the task ids that delete_results has answered 200 for
\* resp:    the last answer of an endpoint

\* The ids uuid4 gives, each once.
TaskIds == 1..MaxTasks

\* A registry entry; file and error are <<>> when the dict has no such key.
Entry(status, file, error) == [status |-> status, file |-> file, error |-> error]

\* RESULTS_DIR / f"{task_id}.json"
ResultFile(t) == t

Answer(op, id, code, status) == [op |-> op, id |-> id, code |-> code, status |-> status]

\* The web layer when the application has started: tasks = {}.
InitWeb ==
    /\ tasks = [t \in {} |-> Entry("", <<>>, <<>>)]
    /\ files = [t \in TaskIds |-> "absent"]
    /\ job = [t \in TaskIds |-> "none"]
    /\ deleted = {}
    /\ resp = Answer("none", 0, 0, "")

InitDisk == [p \in AllPaths |-> IF p = <<".">> THEN "dir" ELSE "absent"]

InitCalls(requests) ==
    /\ req \in requests
    /\ pc = [c \in Calls |-> IF req[c].entry = "none" THEN "unused" ELSE "init"]
    /\ cmd = [c \in Calls |-> <<>>]
    /\ elapsed = [c \in Calls |-> 0]
    /\ err = [c \in Calls |-> NoErr]
    /\ ret = [c \in Calls |-> <<>>]
    /\ log = [c \in Calls |-> <<>>]
    /\ disk = InitDisk
    /\ InitWeb

\* One guarded call: any acquisition, or a branch listing.
Init ==
    InitCalls({f \in [Calls -> CloneRequests \cup FetchRequests \cup {NoRequest}] :
                  f[1].entry # "none" /\ f[2].entry = "none"})

\* ------------------------------------------------------------ helpers

\* The call fails: the exception leaves the coroutine and the guard.
Raise(c, kind, step, of, events) ==
    /\ pc' = [pc EXCEPT ![c] = "Failed"]
    /\ err' = [err EXCEPT ![c] = Error(kind, step, of)]
    /\ log' = [log EXCEPT ![c] = @ \o events]

\* _run_command with the command kept in one module-level list that every
\* call writes.
RunCommandShared(c, step, args, events) ==
    /\ pc' = [pc EXCEPT ![c] = CheckStageOf(step)]
    /\ cmd' = [d \in Calls |-> args]
    /\ log' = [log EXCEPT ![c] = @ \o events
                   \o <<Ev("run", step, step, args, 0, <<>>),
                        Ev("start", "version", step, VersionCmd, 0, <<>>)>>]

\* _run_command(*args) is called: check_git_installed starts git --version.
RunCommand(c, step, args, events) ==
    /\ pc' = [pc EXCEPT ![c] = CheckStageOf(step)]
    /\ cmd' = [cmd EXCEPT ![c] = args]
    /\ log' = [log EXCEPT ![c] = @ \o events
                   \o <<Ev("run", step, step, args, 0, <<>>),
                        Ev("start", "version", step, VersionCmd, 0, <<>>)>>]

\* The call returns to its caller.
Return(c, value, events) ==
    /\ pc' = [pc EXCEPT ![c] = "Done"]
    /\ ret' = [ret EXCEPT ![c] = value]
    /\ log' = [log EXCEPT ![c] = @ \o events]

\* clone_repo with the destination removed when an exception leaves it
\* (shutil.rmtree in an except clause).
OnFailureRmtree(d, r) == [d EXCEPT ![r.local_path] = "absent"]

\* What clone_repo does to the disk d when an exception leaves it: it has
\* no except or finally clause but the one around makedirs, which re-raises.
OnFailure(d, r) == d

\* The disk after a step of call c that left it as d.
AfterStep(c, d) ==
    disk' = IF pc'[c] = "Failed" /\ req[c].entry = "clone_repo"
            THEN OnFailure(d, req[c])
            ELSE d

\* How an external process ended: not started at all, or an exit status.
Endings == {[spawned |-> FALSE, rc |-> 0]} \cup [spawned : {TRUE}, rc : ExitCodes]

EndEv(e, step, of, argv, out) ==
    Ev(IF e.spawned THEN "exit" ELSE "nospawn", step, of, argv, e.rc, out)

\* ------------------------------------------------------------ actions

\* clone_repo up to its first await: makedirs, then the probe is started.
CloneRepoStart(c) ==
    /\ pc[c] = "init"
    /\ req[c].entry = "clone_repo"
    /\ LET parent == ParentDir(req[c].local_path)
       IN  \E ok \in BOOLEAN :
             IF ok
             THEN /\ disk' = [disk EXCEPT ![parent] = "dir"]
                  /\ pc' = [pc EXCEPT ![c] = "probe"]
                  /\ log' = [log EXCEPT ![c] = @
                        \o <<Ev("mkdir", "mkdir", "mkdir", <<parent>>, 0, <<>>),
                             Ev("start", "probe", "probe", CurlCmd(req[c].url), 0, <<>>)>>]
                  /\ UNCHANGED err
             ELSE /\ Raise(c, "DirectoryCreationFailed", "mkdir", "mkdir",
                           <<Ev("mkdir", "mkdir", "mkdir", <<parent>>, 1, <<>>)>>)
                  /\ AfterStep(c, disk)
    /\ UNCHANGED <<req, cmd, elapsed, ret>>
    /\ UNCHANGED webVars

\* clone_repo with the probe started but not awaited: the clone command is
\* run whatever the probe will say.
AfterProbeNoAwait(c, v, events) ==
    RunCommand(c, "clone", CloneCmd(req[c]), <<>>) /\ UNCHANGED err

\* clone_repo after `await _check_repo_exists(url)`: raise, or build the
\* clone command and call _run_command.
AfterProbe(c, v, events) ==
    IF v.raise # ""
    THEN Raise(c, v.raise, "probe", "probe", events) /\ UNCHANGED cmd
    ELSE IF ~v.value
         THEN Raise(c, "RepositoryNotFound", "probe", "probe", events) /\ UNCHANGED cmd
         ELSE RunCommand(c, "clone", CloneCmd(req[c]), events) /\ UNCHANGED err

\* curl ends: _check_repo_exists classifies it and clone_repo goes on.
ProbeExit(c) ==
    /\ pc[c] = "probe"
    /\ elapsed[c] < TIMEOUT
    /\ \E e \in Endings, out \in ProbeOutputs :
         /\ ~e.spawned => out = <<>>
         /\ AfterProbe(c, CheckRepoExists(e.spawned, e.rc, out),
                       <<EndEv(e, "probe", "probe", CurlCmd(req[c].url), out)>>)
    /\ AfterStep(c, disk)
    /\ UNCHANGED <<req, elapsed, ret>>
    /\ UNCHANGED webVars

\* git --version ends: check_git_installed raises, or _run_command starts
\* the requested command.
ToolCheckExit(c) ==
    /\ pc[c] \in CheckStages
    /\ elapsed[c] < TIMEOUT
    /\ \E e \in Endings :
         LET of   == InvocationOf(pc[c])
             kind == CheckGitInstalled(e.spawned, e.rc)
             ev   == EndEv(e, "version", of, VersionCmd, <<>>)
         IN  IF kind # ""
             THEN Raise(c, kind, "version", of, <<ev>>)
             ELSE /\ pc' = [pc EXCEPT ![c] = of]
                  /\ log' = [log EXCEPT ![c] = @
                        \o <<ev, Ev("start", of, of, cmd[c], 0, <<>>)>>]
                  /\ UNCHANGED err
    /\ AfterStep(c, disk)
    /\ UNCHANGED <<req, cmd, elapsed, ret>>
    /\ UNCHANGED webVars

\* clone_repo after `await _run_command(*clone_cmd)` has returned.
AfterClone(c, events) ==
    IF NeedsCheckout(req[c])
    THEN RunCommand(c, "checkout", CheckoutCmd(req[c]), events) /\ UNCHANGED <<err, ret>>
    ELSE Return(c, <<>>, events) /\ UNCHANGED <<err, cmd>>

\* git clone ends.  A clone that fails may leave a partial directory.
CloneExit(c) ==
    /\ pc[c] = "clone"
    /\ elapsed[c] < TIMEOUT
    /\ \E e \in Endings, left \in BOOLEAN :
         LET kind == RunCommandResult(e.spawned, e.rc)
             dest == req[c].local_path
         IN  /\ (kind = "" \/ ~e.spawned) => left
             /\ IF kind # ""
                THEN Raise(c, kind, "clone", "clone",
                           <<EndEv(e, "clone", "clone", cmd[c], <<>>)>>)
                     /\ UNCHANGED <<cmd, ret>>
                ELSE AfterClone(c, <<EndEv(e, "clone", "clone", cmd[c], <<>>)>>)
             /\ AfterStep(c, IF kind = "" THEN [disk EXCEPT ![dest] = "worktree"]
                             ELSE IF e.spawned /\ left THEN [disk EXCEPT ![dest] = "partial"]
                             ELSE disk)
    /\ UNCHANGED <<req, elapsed>>
    /\ UNCHANGED webVars

\* The sparse-checkout / checkout command ends.
CheckoutExit(c) ==
    /\ pc[c] = "checkout"
    /\ elapsed[c] < TIMEOUT
    /\ \E e \in Endings :
         LET kind == RunCommandResult(e.spawned, e.rc)
             ev   == EndEv(e, "checkout", "checkout", cmd[c], <<>>)
         IN  IF kind # ""
             THEN Raise(c, kind, "checkout", "checkout", <<ev>>) /\ UNCHANGED ret
             ELSE Return(c, <<>>, <<ev>>) /\ UNCHANGED err
    /\ AfterStep(c, disk)
    /\ UNCHANGED <<req, cmd, elapsed>>
    /\ UNCHANGED webVars

\* fetch_remote_branch_list up to its first await.
FetchStart(c) ==
    /\ pc[c] = "init"
    /\ req[c].entry = "fetch_remote_branch_list"
    /\ RunCommand(c, "lsremote", LsRemoteCmd(req[c].url), <<>>)
    /\ UNCHANGED <<req, elapsed, err, ret, disk>>
    /\ UNCHANGED webVars

\* git ls-remote ends: the branch names are parsed from its output.
LsRemoteExit(c) ==
    /\ pc[c] = "lsremote"
    /\ elapsed[c] < TIMEOUT
    /\ \E e \in Endings, out \in LsRemoteOutputs :
         LET kind == RunCommandResult(e.spawned, e.rc)
             ev   == EndEv(e, "lsremote", "lsremote", cmd[c], out)
         IN  /\ ~e.spawned => out = <<>>
             /\ IF kind # ""
                THEN Raise(c, kind, "lsremote", "lsremote", <<ev>>) /\ UNCHANGED ret
                ELSE Return(c, ParseBranches(out), <<ev>>) /\ UNCHANGED err
    /\ UNCHANGED <<req, cmd, elapsed, disk>>
    /\ UNCHANGED webVars

\* check_git_installed with a catch-all except clause: a cancellation that
\* arrives during git --version is reported as a missing tool.
CancelledCaught(stage) ==
    IF stage \in {"check_clone", "check_checkout", "check_ls"}
    THEN "ToolMissing"
    ELSE "CancelledError"

\* _run_command with a catch-all except clause around the command's
\* process: a cancellation that arrives there is reported as a failed
\* command.
CancelledAsCommandFailed(stage) ==
    IF stage \in {"clone", "checkout", "lsremote"}
    THEN "CommandFailed"
    ELSE "CancelledError"

\* What leaves the coroutine when the guard cancels it at a stage: no
\* except clause of the module catches the cancellation (check_git_installed
\* catches FileNotFoundError only).
Cancelled(stage) == "CancelledError"

\* The deadline guard's answer for what left the cancelled coroutine.
GuardResult(exc) == IF exc = "CancelledError" THEN "Timeout" ELSE exc

\* Time passes while a call is suspended.
Tick(c) ==
    /\ pc[c] \in AwaitStages
    /\ elapsed[c] < TIMEOUT
    /\ elapsed' = [elapsed EXCEPT ![c] =
                      IF @ + TickLen > TIMEOUT THEN TIMEOUT ELSE @ + TickLen]
    /\ UNCHANGED <<req, pc, cmd, err, ret, log, disk>>
    /\ UNCHANGED webVars

\* The guard decorator on clone_repo only.
GuardedCloneOnly(entry) == entry = "clone_repo"

\* The entry points decorated with @async_timeout(TIMEOUT).
Guarded(entry) == entry \in {"clone_repo", "fetch_remote_branch_list"}

\* The deadline expires: the guard cancels the call where it is suspended.
\* The external process is left to itself; a clone may have written some
\* of the destination.
DeadlineExpires(c) ==
    /\ pc[c] \in AwaitStages
    /\ Guarded(req[c].entry)
    /\ elapsed[c] >= TIMEOUT
    /\ Raise(c, GuardResult(Cancelled(pc[c])), StepAt(pc[c]), InvocationOf(pc[c]),
             <<Ev("cancel", StepAt(pc[c]), InvocationOf(pc[c]), <<>>, 0, <<>>)>>)
    /\ \E left \in BOOLEAN :
         /\ pc[c] # "clone" => ~left
         /\ AfterStep(c, IF left THEN [disk EXCEPT ![req[c].local_path] = "partial"] ELSE disk)
    /\ UNCHANGED <<req, cmd, elapsed, ret>>
    /\ UNCHANGED webVars

Next ==
    \E c \in Calls :
        \/ CloneRepoStart(c)
        \/ ProbeExit(c)
        \/ ToolCheckExit(c)
        \/ CloneExit(c)
        \/ CheckoutExit(c)
        \/ FetchStart(c)
        \/ LsRemoteExit(c)
        \/ Tick(c)
        \/ DeadlineExpires(c)

Spec == Init /\ [][Next]_vars

\* The event loop runs a coroutine that is ready, time passes while a call
\* is suspended, and the guard's timer fires once the deadline is reached.
\* Nothing is assumed of the external processes: they may never end.
Fairness ==
    \A c \in Calls :
        /\ WF_vars(CloneRepoStart(c))
        /\ WF_vars(FetchStart(c))
        /\ WF_vars(Tick(c))
        /\ WF_vars(DeadlineExpires(c))

SpecLive == Init /\ [][Next]_vars /\ Fairness

\* Two calls in flight at once: acquisitions into distinct destinations,
\* or an acquisition next to a branch listing.
ConcRequests ==
    {f \in [Calls -> CloneRequests \cup FetchRequests] :
        /\ f[1].entry = "clone_repo"
        /\ f[1].local_path # f[2].local_path
        /\ \A c \in Calls :
               /\ f[c].url = <<"https://example.com/r.git">>
               /\ f[c].commit \in {None, Some(<<"abc123">>)}
               /\ f[c].subpath \in {<<"/">>, <<"/", "src">>}
        /\ f[1].local_path = <<"/", "tmp", "/", "w", "/", "r1">>
        /\ f[1].branch = None
        /\ f[2].branch \in {None, Some(<<"D", "e", "v">>)}
        /\ f[2].subpath = <<"/">>
        /\ f[2].commit = None}

InitConc == InitCalls(ConcRequests)

SpecConc == InitConc /\ [][Next]_vars

\* ------------------------------------------------------ web layer

\* tasks[task_id] = entry
Put(t, entry) == (t :> entry) @@ tasks

\* POST /analyze: a fresh id is registered as processing and its job is
\* handed to the background tasks, which run it after the answer is sent.
AnalyzeRepo(t) ==
    /\ job[t] = "none"
    /\ tasks' = Put(t, Entry("processing", <<>>, <<>>))
    /\ job' = [job EXCEPT ![t] = "queued"]
    /\ resp' = Answer("analyze", t, 200, "processing")
    /\ UNCHANGED <<files, deleted>>
    /\ UNCHANGED libVars

\* process_repo_analysis starts and is suspended at `await ingest_async`.
ProcessStart(t) ==
    /\ job[t] = "queued"
    /\ job' = [job EXCEPT ![t] = "running"]
    /\ UNCHANGED <<tasks, files, deleted, resp>>
    /\ UNCHANGED libVars

\* process_repo_analysis with the try block closed before json.dump: the
\* entry is set to completed whether the file was written to its end or not.
ProcessEndDumpUnchecked(t) ==
    /\ job[t] = "running"
    /\ \E outcome \in {"ok", "ingest_raises", "open_raises", "dump_raises"} :
         /\ files' = CASE outcome = "ok" -> [files EXCEPT ![ResultFile(t)] = "full"]
                       [] outcome = "dump_raises" -> [files EXCEPT ![ResultFile(t)] = "partial"]
                       [] OTHER -> files
         /\ tasks' = IF outcome \in {"ok", "dump_raises"}
                     THEN Put(t, Entry("completed", <<ResultFile(t)>>, <<>>))
                     ELSE Put(t, Entry("failed", <<>>, <<outcome>>))
    /\ job' = [job EXCEPT ![t] = "ended"]
    /\ UNCHANGED <<deleted, resp>>
    /\ UNCHANGED libVars

\* ingest_async ends and process_repo_analysis runs to its end: the result
\* file is written and the entry set to completed, or an exception (of the
\* ingestion, of open, or of json.dump with the file half written) sets it
\* to failed.  Neither assignment looks at the registry first.
ProcessEnd(t) ==
    /\ job[t] = "running"
    /\ \E outcome \in {"ok", "ingest_raises", "open_raises", "dump_raises"} :
         /\ files' = CASE outcome = "ok" -> [files EXCEPT ![ResultFile(t)] = "full"]
                       [] outcome = "dump_raises" -> [files EXCEPT ![ResultFile(t)] = "partial"]
                       [] OTHER -> files
         /\ tasks' = IF outcome = "ok"
                     THEN Put(t, Entry("completed", <<ResultFile(t)>>, <<>>))
                     ELSE Put(t, Entry("failed", <<>>, <<outcome>>))
    /\ job' = [job EXCEPT ![t] = "ended"]
    /\ UNCHANGED <<deleted, resp>>
    /\ UNCHANGED libVars

\* GET /results/{task_id}
GetResults(t) ==
    /\ resp' =
           IF t \notin DOMAIN tasks THEN Answer("get", t, 404, "no_task")
           ELSE IF tasks[t].status = "processing" THEN Answer("get", t, 200, "processing")
           ELSE IF tasks[t].status = "failed" THEN Answer("get", t, 200, "failed")
           ELSE IF files[tasks[t].file[1]] = "absent" THEN Answer("get", t, 404, "no_file")
           ELSE IF files[tasks[t].file[1]] = "partial" THEN Answer("get", t, 500, "")
           ELSE Answer("get", t, 200, "completed")
    /\ UNCHANGED <<tasks, files, job, deleted>>
    /\ UNCHANGED libVars

\* DELETE /results/{task_id}
DeleteResults(t) ==
    /\ IF t \notin DOMAIN tasks
       THEN /\ resp' = Answer("delete", t, 404, "")
            /\ UNCHANGED <<tasks, files, deleted>>
       ELSE /\ files' = IF tasks[t].status = "completed" /\ tasks[t].file # <<>>
                        THEN [files EXCEPT ![tasks[t].file[1]] = "absent"]
                        ELSE files
            /\ tasks' = [x \in DOMAIN tasks \ {t} |-> tasks[x]]
            /\ deleted' = deleted \cup {t}
            /\ resp' = Answer("delete", t, 200, "")
    /\ UNCHANGED job
    /\ UNCHANGED libVars

NextWeb ==
    \E t \in TaskIds :
        \/ AnalyzeRepo(t)
        \/ ProcessStart(t)
        \/ ProcessEnd(t)
        \/ GetResults(t)
        \/ DeleteResults(t)

\* The application started, no call of repository_clone in flight.
InitWebOnly == InitCalls({[c \in Calls |-> NoRequest]})

SpecWeb == InitWebOnly /\ [][NextWeb]_vars

\* ------------------------------------------------------------- claims

Acquisitions == {c \in Calls : req[c].entry = "clone_repo"}

\* An event that ends an external process.
Ended(e) == e.ev \in {"exit", "nospawn", "cancel"}

\* The status code a probe output's status line carries, 0 when the output
\* has no status line.
StatusOf(out) ==
    CASE out = Resp200 -> 200
      [] out = Resp301 -> 301
      [] out = Resp404 -> 404
      [] out = Resp302 -> 302
      [] out = Resp403 -> 403
      [] out = Resp500 -> 500
      [] OTHER -> 0

\* The place of an event's step in the acquisition sequence.
StepRank(e) ==
    CASE e.of = "mkdir" -> 1
      [] e.of = "probe" -> 2
      [] e.of = "clone" -> 3
      [] e.of = "checkout" -> 4
      [] OTHER -> 0

\* C1: within one acquisition the steps run in the order directory
\* preparation, existence probe, clone, checkout: the probe is started after
\* the directory is prepared, the clone is run only after the probe has
\* exited, the checkout only after the clone has exited with success, and
\* a process that was started ends before anything else is started.
C1_StepsInOrder ==
    \A c \in Acquisitions :
        LET L == log[c]
        IN  /\ \A i \in DOMAIN L : \A j \in DOMAIN L :
                   i < j => StepRank(L[i]) <= StepRank(L[j])
            /\ \A i \in DOMAIN L :
                   (L[i].ev = "start" /\ i < Len(L))
                       => /\ Ended(L[i + 1])
                          /\ L[i + 1].step = L[i].step
                          /\ L[i + 1].of = L[i].of
            /\ \A j \in DOMAIN L :
                   L[j].step = "probe"
                       => \E i \in 1..(j - 1) : L[i].ev = "mkdir" /\ L[i].rc = 0
            /\ \A j \in DOMAIN L :
                   L[j].of = "clone"
                       => \E i \in 1..(j - 1) : L[i].ev = "exit" /\ L[i].step = "probe"
            /\ \A j \in DOMAIN L :
                   L[j].of = "checkout"
                       => \E i \in 1..(j - 1) :
                              L[i].ev = "exit" /\ L[i].step = "clone" /\ L[i].rc = 0

C1_Witness ==
    \E c \in Acquisitions :
        /\ pc[c] = "Done"
        /\ \E i \in DOMAIN log[c] : log[c][i].ev = "exit" /\ log[c][i].step = "checkout"

\* A step's event that is a failure of the step.
StepFailed(e) ==
    \/ e.ev = "mkdir" /\ e.rc # 0
    \/ e.ev \in {"nospawn", "cancel"}
    \/ e.ev = "exit" /\ e.rc # 0
    \/ e.ev = "exit" /\ e.step = "probe" /\ StatusOf(e.out) \notin {200, 301}

\* The errors a failure of a step is reported as.
ErrorsOf(e) ==
    CASE e.ev = "mkdir" -> {"DirectoryCreationFailed"}
      [] e.ev = "cancel" -> {"Timeout"}
      [] e.ev = "nospawn" /\ e.step = "version" -> {"ToolMissing"}
      [] e.ev = "nospawn" /\ e.step # "version" -> {"FileNotFoundError"}
      [] e.ev = "exit" /\ e.step = "version" -> {"ToolMisbehaving"}
      [] e.ev = "exit" /\ e.step = "probe" ->
             {"RepositoryNotFound", "UnexpectedProbeStatus", "IndexError", "ValueError"}
      [] OTHER -> {"CommandFailed"}

\* C2: when a step of an acquisition fails, the acquisition is Failed with
\* that step's error, the failed step is the last thing the acquisition
\* did, every failure is the failure of one step, and no step (the tool
\* check of one runner invocation counted as a step) is started twice.
C2_FailureIsFinal ==
    \A c \in Acquisitions :
        LET L == log[c]
        IN  /\ \A i \in DOMAIN L :
                   StepFailed(L[i])
                       => /\ i = Len(L)
                          /\ pc[c] = "Failed"
                          /\ err[c].step = L[i].step
                          /\ err[c].of = L[i].of
                          /\ err[c].kind \in ErrorsOf(L[i])
            /\ pc[c] = "Failed" => (L # <<>> /\ StepFailed(L[Len(L)]))
            /\ \A i \in DOMAIN L : \A j \in DOMAIN L :
                   (i < j /\ L[i].ev \in {"mkdir", "start"})
                       => ~(L[j].ev = L[i].ev /\ L[j].step = L[i].step /\ L[j].of = L[i].of)

C2_Witness ==
    \E c \in Acquisitions :
        /\ NeedsCheckout(req[c])
        /\ pc[c] = "Failed"
        /\ err[c] = Error("CommandFailed", "clone", "clone")

\* C3: when the probe answers 404 the acquisition fails with
\* RepositoryNotFound, no git process (version check, clone, checkout) was
\* run or started for it, and the destination directory was not created.
C3_NotFoundBeforeClone ==
    \A c \in Acquisitions :
        \A i \in DOMAIN log[c] :
            (log[c][i].ev = "exit" /\ log[c][i].step = "probe"
                 /\ StatusOf(log[c][i].out) = 404)
                => /\ pc[c] = "Failed"
                   /\ err[c].kind = "RepositoryNotFound"
                   /\ \A j \in DOMAIN log[c] : log[c][j].step \in {"mkdir", "probe"}
                   /\ disk[req[c].local_path] = "absent"

C3_Witness ==
    \E c \in Acquisitions :
        \E i \in DOMAIN log[c] :
            /\ log[c][i].ev = "exit" /\ log[c][i].step = "probe"
            /\ log[c][i].rc = 0 /\ log[c][i].out = Resp404

\* C4: a guarded call (clone_repo or fetch_remote_branch_list) that had not
\* ended when its deadline expired has failed with Timeout, whatever step
\* it was suspended in.
C4_DeadlineGivesTimeout ==
    \A c \in Calls :
        (elapsed[c] >= TIMEOUT /\ pc[c] \in {"Done", "Failed"})
            => (pc[c] = "Failed" /\ err[c].kind = "Timeout")

C4_Witness ==
    \E c \in Acquisitions :
        /\ elapsed[c] >= TIMEOUT
        /\ err[c] = Error("Timeout", "version", "checkout")

\* A commit is given: a revision, not None and not the empty string.
CommitGiven(r) == r.commit # None /\ r.commit[1] # <<>>

\* An event that carries a command: it is handed to the runner, or started.
Carries(e, step) == e.step = step /\ e.ev \in {"run", "start"}

CloneSucceeded(e) == e.ev = "exit" /\ e.step = "clone" /\ e.rc = 0

\* C5: a request for the whole tree ("/") with no commit is cloned with
\* --depth=1 and with neither --filter=blob:none nor --sparse.
C5_FullTreeShallow ==
    \A c \in Acquisitions :
        (req[c].subpath = <<"/">> /\ ~CommitGiven(req[c]))
            => \A i \in DOMAIN log[c] :
                   Carries(log[c][i], "clone")
                       => /\ ~Has(log[c][i].argv, Lit("--filter=blob:none"))
                          /\ ~Has(log[c][i].argv, Lit("--sparse"))
                          /\ Has(log[c][i].argv, Lit("--depth=1"))

C5_Witness ==
    \E c \in Acquisitions :
        /\ req[c].subpath = <<"/">>
        /\ req[c].commit = None
        /\ \E i \in DOMAIN log[c] : log[c][i].ev = "start" /\ log[c][i].step = "clone"

\* A second command that checks out r's commit in r's destination.
ChecksOutCommit(argv, r) ==
    /\ Len(argv) >= 5
    /\ SubSeq(argv, 1, 3) = <<Lit("git"), Lit("-C"), r.local_path>>
    /\ SubSeq(argv, Len(argv) - 1, Len(argv)) = <<Lit("checkout"), r.commit[1]>>

\* C6: with a commit given the clone command has no --depth=1; the checkout
\* of exactly that commit in the destination is handed to the runner as
\* soon as the clone has exited with success and never earlier, and an
\* acquisition that returns has run it.
C6_CommitPinned ==
    \A c \in Acquisitions :
        CommitGiven(req[c])
            => LET L == log[c]
               IN  /\ \A i \in DOMAIN L :
                          Carries(L[i], "clone") => ~Has(L[i].argv, Lit("--depth=1"))
                   /\ \A i \in DOMAIN L :
                          CloneSucceeded(L[i])
                              => /\ i < Len(L)
                                 /\ L[i + 1].ev = "run"
                                 /\ L[i + 1].step = "checkout"
                   /\ \A j \in DOMAIN L :
                          Carries(L[j], "checkout") => ChecksOutCommit(L[j].argv, req[c])
                   /\ \A j \in DOMAIN L :
                          L[j].of = "checkout"
                              => \E i \in 1..(j - 1) : CloneSucceeded(L[i])
                   /\ pc[c] = "Done"
                          => \E i \in DOMAIN L :
                                 /\ L[i].ev = "exit" /\ L[i].step = "checkout" /\ L[i].rc = 0
                                 /\ ChecksOutCommit(L[i].argv, req[c])

C6_Witness ==
    \E c \in Acquisitions :
        CommitGiven(req[c]) /\ req[c].subpath = <<"/">> /\ pc[c] = "Done"

\* x is sub with no leading slash: sub less a prefix made of slashes only.
NoLeadingSlash(x, sub) ==
    /\ \E k \in 0..Len(sub) :
           /\ x = SubSeq(sub, k + 1, Len(sub))
           /\ \A j \in 1..k : sub[j] = "/"
    /\ x = <<>> \/ x[1] # "/"

\* A second command that declares r's subtree, ahead of any checkout.
DeclaresSubtree(argv, r) ==
    /\ Len(argv) >= 6
    /\ SubSeq(argv, 1, 5) =
           <<Lit("git"), Lit("-C"), r.local_path, Lit("sparse-checkout"), Lit("set")>>
    /\ NoLeadingSlash(argv[6], r.subpath)
    /\ \A k \in DOMAIN argv : argv[k] = Lit("checkout") => k > 6

\* C7: with subtree_path other than "/" the clone command has both
\* --filter=blob:none and --sparse, and 'sparse-checkout set <subtree>',
\* the subtree without leading slashes, is handed to the runner right after
\* the clone has succeeded, never before, in the one command that holds
\* any 'checkout <commit>' and ahead of it.
C7_PartialMode ==
    \A c \in Acquisitions :
        req[c].subpath # <<"/">>
            => LET L == log[c]
               IN  /\ \A i \in DOMAIN L :
                          Carries(L[i], "clone")
                              => /\ Has(L[i].argv, Lit("--filter=blob:none"))
                                 /\ Has(L[i].argv, Lit("--sparse"))
                   /\ \A i \in DOMAIN L :
                          CloneSucceeded(L[i])
                              => /\ i < Len(L)
                                 /\ L[i + 1].ev = "run"
                                 /\ L[i + 1].step = "checkout"
                   /\ \A j \in DOMAIN L :
                          Carries(L[j], "checkout") => DeclaresSubtree(L[j].argv, req[c])
                   /\ \A j \in DOMAIN L :
                          L[j].of = "checkout"
                              => \E i \in 1..(j - 1) : CloneSucceeded(L[i])
                   /\ \A j \in DOMAIN L :
                          (Carries(L[j], "checkout") /\ CommitGiven(req[c]))
                              => ChecksOutCommit(L[j].argv, req[c])

C7_Witness ==
    \E c \in Acquisitions :
        /\ req[c].subpath = <<"/", "/", "a", "/", "b">>
        /\ CommitGiven(req[c])
        /\ \E i \in DOMAIN log[c] :
               /\ log[c][i].ev = "start" /\ log[c][i].step = "checkout"
               /\ log[c][i].argv[6] = <<"a", "/", "b">>

\* b is "main" or "master" but for the case of its letters.
IsDefaultBranchName(b) ==
    \E d \in {<<"m", "a", "i", "n">>, <<"m", "a", "s", "t", "e", "r">>} :
        /\ Len(b) = Len(d)
        /\ \A i \in 1..Len(d) :
               \/ b[i] = d[i]
               \/ \E k \in 1..26 : UpperCase[k] = b[i] /\ LowerCase[k] = d[i]

\* C8: a branch that is "main" or "master" in any case, with no commit,
\* puts no --branch in the clone command, whatever the subtree.
C8_DefaultBranchNoFlag ==
    \A c \in Acquisitions :
        (req[c].branch # None /\ IsDefaultBranchName(req[c].branch[1])
             /\ ~CommitGiven(req[c]))
            => \A i \in DOMAIN log[c] :
                   Carries(log[c][i], "clone") => ~Has(log[c][i].argv, Lit("--branch"))

C8_Witness ==
    \E c \in Acquisitions :
        /\ req[c].branch = Some(<<"M", "A", "S", "T", "E", "R">>)
        /\ req[c].commit = None
        /\ req[c].subpath = <<"/", "src">>
        /\ \E i \in DOMAIN log[c] : log[c][i].ev = "start" /\ log[c][i].step = "clone"

\* The second command the request calls for.
ExpectedSecond(r) ==
    <<Lit("git"), Lit("-C"), r.local_path>>
    \o (IF r.subpath # <<"/">>
        THEN <<Lit("sparse-checkout"), Lit("set"),
               CHOOSE x \in {SubSeq(r.subpath, k + 1, Len(r.subpath)) :
                                 k \in 0..Len(r.subpath)} :
                   NoLeadingSlash(x, r.subpath)>>
        ELSE <<>>)
    \o (IF CommitGiven(r) THEN <<Lit("checkout"), r.commit[1]>> ELSE <<>>)

\* C9: after a clone that succeeded a second command is handed to the
\* runner iff a commit is given or the subtree is not "/"; there is at most
\* one, it is git -C <destination> [sparse-checkout set <subtree>]
\* [checkout <commit>] in that order, and nothing else is run: a request
\* with a branch only runs no second command.
C9_SecondInvocation ==
    \A c \in Acquisitions :
        LET L      == log[c]
            r      == req[c]
            wanted == CommitGiven(r) \/ r.subpath # <<"/">>
            second == {i \in DOMAIN L : L[i].ev = "run" /\ L[i].step # "clone"}
        IN  /\ Cardinality(second) <= 1
            /\ Cardinality({i \in DOMAIN L : L[i].ev = "run"}) <= 2
            /\ \A i \in second :
                   /\ wanted
                   /\ L[i].step = "checkout"
                   /\ L[i].argv = ExpectedSecond(r)
                   /\ i > 1 /\ CloneSucceeded(L[i - 1])
            /\ \A i \in DOMAIN L : CloneSucceeded(L[i]) => (wanted <=> (i + 1) \in second)
            /\ \A i \in DOMAIN L :
                   (L[i].ev = "start" /\ L[i].step \notin {"probe", "version", "clone"})
                       => (L[i].step = "checkout" /\ L[i].argv = ExpectedSecond(r))
            /\ pc[c] = "Done" => (wanted <=> second # {})

C9_Witness ==
    \E c \in Acquisitions :
        /\ CommitGiven(req[c])
        /\ req[c].subpath = <<"/", "src">>
        /\ \E i \in DOMAIN log[c] :
               /\ log[c][i].ev = "start" /\ log[c][i].step = "checkout"
               /\ Len(log[c][i].argv) = 8

\* C10: what the probe answers depends on curl's exit status and on the
\* status code alone: a non-zero exit is "not reachable" (the acquisition
\* fails with RepositoryNotFound), exit 0 with 200 or 301 is "reachable"
\* (the clone command is run), exit 0 with 404 or 302 is "not reachable",
\* and exit 0 with any other status code is UnexpectedProbeStatus.
C10_ProbeMapping ==
    \A c \in Acquisitions :
        \A i \in DOMAIN log[c] :
            (log[c][i].ev = "exit" /\ log[c][i].step = "probe")
                => LET L    == log[c]
                       e    == L[i]
                       code == StatusOf(e.out)
                       reachable  == /\ i < Len(L)
                                     /\ L[i + 1].ev = "run" /\ L[i + 1].step = "clone"
                       notFound   == /\ i = Len(L) /\ pc[c] = "Failed"
                                     /\ err[c].kind = "RepositoryNotFound"
                       unexpected == /\ i = Len(L) /\ pc[c] = "Failed"
                                     /\ err[c].kind = "UnexpectedProbeStatus"
                   IN  /\ e.rc # 0 => notFound
                       /\ (e.rc = 0 /\ code \in {200, 301}) => reachable
                       /\ (e.rc = 0 /\ code \in {404, 302}) => notFound
                       /\ (e.rc = 0 /\ code \notin {0, 200, 301, 404, 302}) => unexpected

C10_Witness ==
    \E c \in Acquisitions :
        /\ err[c].kind = "UnexpectedProbeStatus"
        /\ \E i \in DOMAIN log[c] :
               /\ log[c][i].ev = "exit" /\ log[c][i].step = "probe"
               /\ log[c][i].rc = 0 /\ log[c][i].out = Resp403

\* How many events of a log are ev events of step (of any step when step is "").
CountEv(L, ev, step) ==
    Cardinality({i \in DOMAIN L : L[i].ev = ev /\ (step = "" \/ L[i].step = step)})

\* C11: every _run_command invocation (clone, second command, ls-remote)
\* starts its own git --version first; the requested command is started
\* only right after that check has exited with 0, and a check that fails
\* (git missing, non-zero exit) ends the call with ToolMissing or
\* ToolMisbehaving without the command being started.
C11_ToolCheckPerInvocation ==
    \A c \in Calls :
        LET L == log[c]
        IN  /\ \A i \in DOMAIN L :
                   L[i].ev = "run"
                       => /\ i < Len(L)
                          /\ L[i + 1].ev = "start" /\ L[i + 1].step = "version"
                          /\ L[i + 1].of = L[i].step
                          /\ L[i + 1].argv = <<Lit("git"), Lit("--version")>>
            /\ \A j \in DOMAIN L :
                   (L[j].ev = "start" /\ L[j].step \in {"clone", "checkout", "lsremote"})
                       => /\ j > 3
                          /\ L[j - 1].ev = "exit" /\ L[j - 1].step = "version"
                          /\ L[j - 1].rc = 0 /\ L[j - 1].of = L[j].step
                          /\ L[j - 2].ev = "start" /\ L[j - 2].step = "version"
                          /\ L[j - 3].ev = "run" /\ L[j - 3].step = L[j].step
                          /\ L[j - 3].argv = L[j].argv
            /\ \A i \in DOMAIN L :
                   (L[i].step = "version" /\ (L[i].ev = "nospawn" \/ (L[i].ev = "exit" /\ L[i].rc # 0)))
                       => /\ i = Len(L)
                          /\ pc[c] = "Failed"
                          /\ err[c].kind =
                                 (IF L[i].ev = "nospawn" THEN "ToolMissing" ELSE "ToolMisbehaving")
            /\ CountEv(L, "start", "version") = CountEv(L, "run", "")

C11_Witness ==
    \E c \in Acquisitions :
        /\ err[c] = Error("ToolMisbehaving", "version", "checkout")
        /\ CountEv(log[c], "start", "version") = 2

\* A version check that exited with 0 is found in L before place j.
CheckedBefore(L, j) ==
    \E i \in 1..(j - 1) : L[i].ev = "exit" /\ L[i].step = "version" /\ L[i].rc = 0

\* C12 as stated: no external process of an acquisition, the existence
\* probe included, is started before a git --version check has succeeded.
C12_NoProcessBeforeCheck ==
    \A c \in Acquisitions :
        \A j \in DOMAIN log[c] :
            (log[c][j].ev = "start" /\ log[c][j].step \in {"probe", "clone", "checkout"})
                => CheckedBefore(log[c], j)

\* C12: no git command of an acquisition (clone, checkout) is started
\* before a git --version check has succeeded; the existence probe is a
\* curl process started without any tool check, and the first version
\* check of the acquisition comes only after the probe has ended.
C12_GitCommandsAfterCheck ==
    \A c \in Acquisitions :
        LET L == log[c]
        IN  /\ \A j \in DOMAIN L :
                   (L[j].ev = "start" /\ L[j].step \in {"clone", "checkout"})
                       => CheckedBefore(L, j)
            /\ \A j \in DOMAIN L :
                   (L[j].ev = "start" /\ L[j].step = "probe")
                       => /\ ~ \E i \in 1..(j - 1) : L[i].step = "version"
                          /\ L[j].argv[1] = Lit("curl")
            /\ \A j \in DOMAIN L :
                   L[j].step = "version"
                       => \E i \in 1..(j - 1) : L[i].ev = "exit" /\ L[i].step = "probe"

C12_Witness ==
    \E c \in Acquisitions :
        /\ pc[c] = "checkout"
        /\ CountEv(log[c], "exit", "version") = 2
        /\ CountEv(log[c], "start", "probe") = 1

\* C13: every call of clone_repo or fetch_remote_branch_list that was made
\* eventually returns, with its result or with a classified failure, even
\* when an external process it waits for never ends.
C13_EveryCallReturns ==
    \A c \in Calls : (pc[c] = "init") ~> (pc[c] \in {"Done", "Failed"})

C13_Witness ==
    \E c \in Calls :
        /\ req[c].entry = "fetch_remote_branch_list"
        /\ pc[c] = "Failed"
        /\ err[c] = Error("Timeout", "lsremote", "lsremote")
        /\ log[c][Len(log[c])].ev = "cancel"
        /\ CountEv(log[c], "exit", "lsremote") = 0

HasMarker(line) == \E p \in DOMAIN line : line[p] = "refs/heads/"

\* list is what the claim asks of the lister for the lines of an output:
\* one element per line with the marker, in the order of the lines, each
\* the rest of its line after the first marker.
ListsBranches(list, lines) ==
    LET marked  == {i \in DOMAIN lines : HasMarker(lines[i])}
        rank(i) == Cardinality({j \in marked : j <= i})
    IN  /\ Len(list) = Cardinality(marked)
        /\ \A i \in marked :
               \E p \in DOMAIN lines[i] :
                   /\ lines[i][p] = "refs/heads/"
                   /\ \A q \in 1..(p - 1) : lines[i][q] # "refs/heads/"
                   /\ list[rank(i)] = SubSeq(lines[i], p + 1, Len(lines[i]))

\* C14: when git ls-remote exits with 0 the lister returns, for the lines
\* of its output that contain refs/heads/, what follows the first marker
\* of each, in output order and with duplicates kept; other lines give
\* nothing, and an output without such lines gives the empty list, not a
\* failure.
C14_BranchList ==
    \A c \in Calls :
        LET L == log[c]
        IN  (L # <<>> /\ L[Len(L)].ev = "exit" /\ L[Len(L)].step = "lsremote" /\ L[Len(L)].rc = 0)
                => /\ pc[c] = "Done"
                   /\ err[c] = NoErr
                   /\ ListsBranches(ret[c], SplitLines(L[Len(L)].out))

C14_Witness ==
    \E c \in Calls :
        /\ req[c].entry = "fetch_remote_branch_list"
        /\ pc[c] = "Done"
        /\ ret[c] = << <<"dev">>, <<"main">>, <<"dev">> >>

\* A branch is given: a name, not None and not the empty string.
BranchGiven(r) == r.branch # None /\ r.branch[1] # <<>>

\* The clone command the request calls for.
ExpectedClone(r) ==
    <<Lit("git"), Lit("clone"), Lit("--recurse-submodules"), Lit("--single-branch")>>
    \o (IF r.subpath # <<"/">> THEN <<Lit("--filter=blob:none"), Lit("--sparse")>> ELSE <<>>)
    \o (IF ~CommitGiven(r) THEN <<Lit("--depth=1")>> ELSE <<>>)
    \o (IF ~CommitGiven(r) /\ BranchGiven(r) /\ ~IsDefaultBranchName(r.branch[1])
        THEN <<Lit("--branch"), r.branch[1]>>
        ELSE <<>>)
    \o <<r.url, r.local_path>>

\* C15: the clone command is git clone --recurse-submodules
\* --single-branch, then --filter=blob:none --sparse iff the subtree is not
\* "/", then --depth=1 iff no commit is given, then --branch <branch> iff
\* no commit is given and a branch other than main/master (in any case) is,
\* then the url and the destination, which are always its last two
\* arguments; with a commit it never has --branch.
C15_CloneCommand ==
    \A c \in Acquisitions :
        \A i \in DOMAIN log[c] :
            Carries(log[c][i], "clone")
                => LET argv == log[c][i].argv
                   IN  /\ argv = ExpectedClone(req[c])
                       /\ SubSeq(argv, Len(argv) - 1, Len(argv))
                              = <<req[c].url, req[c].local_path>>
                       /\ CommitGiven(req[c]) => ~Has(argv, Lit("--branch"))

C15_Witness ==
    \E c \in Acquisitions :
        /\ CommitGiven(req[c])
        /\ BranchGiven(req[c]) /\ ~IsDefaultBranchName(req[c].branch[1])
        /\ req[c].subpath # <<"/">>
        /\ \E i \in DOMAIN log[c] : log[c][i].ev = "start" /\ log[c][i].step = "clone"

\* The guard has cut the call short.
TimedOut(c) == \E i \in DOMAIN log[c] : log[c][i].ev = "cancel"

\* C16: once the guard has cancelled an acquisition it is reported as
\* Timeout, never as a success, and it takes no further step: the
\* cancellation is the last thing in its log, and nothing of the call
\* changes afterwards.
C16_TimeoutIsFinal ==
    /\ [](\A c \in Acquisitions :
              TimedOut(c) => /\ log[c][Len(log[c])].ev = "cancel"
                             /\ CountEv(log[c], "cancel", "") = 1
                             /\ pc[c] = "Failed"
                             /\ err[c].kind = "Timeout")
    /\ [][\A c \in Acquisitions :
              TimedOut(c) => /\ pc'[c] = pc[c] /\ log'[c] = log[c]
                             /\ err'[c] = err[c] /\ cmd'[c] = cmd[c]]_vars

C16_Witness ==
    \E c \in Acquisitions :
        /\ TimedOut(c)
        /\ err[c] = Error("Timeout", "clone", "clone")
        /\ NeedsCheckout(req[c])

\* The step makes call c fail.
Fails(c) == pc[c] # "Failed" /\ pc'[c] = "Failed"

\* C17: an acquisition is never rolled back.  The step at which it fails
\* (directory, probe, tool check, clone, checkout, timeout) leaves every
\* path as it was, but for what the clone's own process wrote to the
\* destination before it stopped; no step at all removes a path; and the
\* parent directory made and the tree cloned are still there once the
\* acquisition has failed.
C17_NoRollback ==
    /\ [][\A c \in Acquisitions :
              Fails(c) =>
                  LET dest == req[c].local_path
                  IN  /\ \A p \in AllPaths \ {dest} : disk'[p] = disk[p]
                      /\ \/ disk'[dest] = disk[dest]
                         \/ pc[c] = "clone" /\ disk'[dest] = "partial"]_vars
    /\ [][\A p \in AllPaths : disk[p] # "absent" => disk'[p] # "absent"]_vars
    /\ [](\A c \in Acquisitions :
              pc[c] = "Failed" =>
                  /\ (\E i \in DOMAIN log[c] : log[c][i].ev = "mkdir" /\ log[c][i].rc = 0)
                         => disk[ParentDir(req[c].local_path)] = "dir"
                  /\ (\E i \in DOMAIN log[c] : CloneSucceeded(log[c][i]))
                         => disk[req[c].local_path] = "worktree")

C17_Witness ==
    \E c \in Acquisitions :
        /\ pc[c] = "Failed"
        /\ err[c].step = "checkout"
        /\ disk[req[c].local_path] = "worktree"
        /\ disk[ParentDir(req[c].local_path)] = "dir"

\* The request calls for a second command.
SecondNeeded(r) == CommitGiven(r) \/ r.subpath # <<"/">>

\* An acquisition that runs alone does at most thirteen things, each at
\* its place: 1 makedirs, 2 probe started, 3 probe ended, 4 clone handed
\* to the runner, 5 its tool check started, 6 ended, 7 clone started,
\* 8 ended, 9 to 13 the same for the second command.
SoloSlot(i) ==
    CASE i = 1 -> [evs |-> {"mkdir"}, step |-> "mkdir", of |-> "mkdir"]
      [] i = 2 -> [evs |-> {"start"}, step |-> "probe", of |-> "probe"]
      [] i = 3 -> [evs |-> {"exit", "nospawn", "cancel"}, step |-> "probe", of |-> "probe"]
      [] i \in {4, 9} -> [evs |-> {"run"}, step |-> IF i = 4 THEN "clone" ELSE "checkout",
                           of |-> IF i = 4 THEN "clone" ELSE "checkout"]
      [] i \in {5, 10} -> [evs |-> {"start"}, step |-> "version",
                            of |-> IF i = 5 THEN "clone" ELSE "checkout"]
      [] i \in {6, 11} -> [evs |-> {"exit", "nospawn", "cancel"}, step |-> "version",
                            of |-> IF i = 6 THEN "clone" ELSE "checkout"]
      [] i \in {7, 12} -> [evs |-> {"start"}, step |-> IF i = 7 THEN "clone" ELSE "checkout",
                            of |-> IF i = 7 THEN "clone" ELSE "checkout"]
      [] OTHER -> [evs |-> {"exit", "nospawn", "cancel"},
                   step |-> IF i = 8 THEN "clone" ELSE "checkout",
                   of |-> IF i = 8 THEN "clone" ELSE "checkout"]

\* The command an event of request r carries when the acquisition is alone.
SoloArgv(r, e) ==
    CASE e.step = "clone" -> ExpectedClone(r)
      [] e.step = "checkout" -> ExpectedSecond(r)
      [] e.step = "version" -> <<Lit("git"), Lit("--version")>>
      [] e.step = "probe" -> <<Lit("curl"), Lit("-I"), r.url>>
      [] OTHER -> e.argv

\* The event at place i lets an acquisition of r that runs alone go on.
SoloGoesOn(r, e, i) ==
    CASE i = 1 -> e.rc = 0
      [] i = 3 -> e.ev = "exit" /\ e.rc = 0 /\ StatusOf(e.out) \in {200, 301}
      [] i \in {6, 11} -> e.ev = "exit" /\ e.rc = 0
      [] i = 8 -> e.ev = "exit" /\ e.rc = 0 /\ SecondNeeded(r)
      [] i = 13 -> FALSE
      [] OTHER -> TRUE

\* Where an acquisition that runs alone is suspended after i events.
SoloStage(i) ==
    CASE i = 2 -> "probe"
      [] i = 5 -> "check_clone"
      [] i = 7 -> "clone"
      [] i = 10 -> "check_checkout"
      [] i = 12 -> "checkout"
      [] OTHER -> "none"

\* Call c is as an acquisition of its request that runs alone would be,
\* given how its own processes ended: its log, its position, its outcome
\* and the command it has in hand.
AsIfAlone(c) ==
    LET r == req[c]
        L == log[c]
        n == Len(L)
    IN  /\ n <= 13
        /\ \A i \in DOMAIN L :
               /\ L[i].ev \in SoloSlot(i).evs
               /\ L[i].step = SoloSlot(i).step
               /\ L[i].of = SoloSlot(i).of
               /\ L[i].ev # "cancel" => L[i].argv = SoloArgv(r, L[i])
               /\ i < n => SoloGoesOn(r, L[i], i)
        /\ IF n = 0 THEN pc[c] = "init" /\ err[c] = NoErr
           ELSE IF SoloStage(n) # "none"
           THEN /\ pc[c] = SoloStage(n) /\ err[c] = NoErr
                /\ n >= 5 => cmd[c] = (IF n < 9 THEN ExpectedClone(r) ELSE ExpectedSecond(r))
           ELSE /\ ~SoloGoesOn(r, L[n], n)
                /\ IF StepFailed(L[n])
                   THEN /\ pc[c] = "Failed"
                        /\ err[c].kind \in ErrorsOf(L[n])
                        /\ err[c].step = L[n].step /\ err[c].of = L[n].of
                   ELSE /\ pc[c] = "Done" /\ err[c] = NoErr
                        /\ n \in {8, 13}

\* What a call holds in the process.
Local(c) == <<req[c], pc[c], cmd[c], elapsed[c], err[c], ret[c], log[c]>>

\* C18: concurrent acquisitions into distinct destinations are
\* independent.  Under every interleaving each acquisition's commands,
\* position and outcome are those of an acquisition of its request that
\* runs alone; and a step changes what one call holds only, and on disk
\* only that call's destination and its parent directory.
C18_Independent ==
    /\ [](\A c \in Acquisitions : AsIfAlone(c))
    /\ [][\A c \in Calls :
              Local(c)' # Local(c)
                  => /\ \A d \in Calls \ {c} : Local(d)' = Local(d)
                     /\ \A p \in AllPaths \ {req[c].local_path, ParentDir(req[c].local_path)} :
                            disk'[p] = disk[p]]_vars

C18_Witness ==
    /\ Acquisitions = Calls
    /\ req[1].local_path # req[2].local_path
    /\ pc[1] = "Done" /\ Len(log[1]) = 13
    /\ pc[2] = "clone"
    /\ cmd[1] # cmd[2]

\* C19: deletion is final.  Once delete_results has answered 200 for a
\* task id, the id is absent from the registry in every later state, its
\* result file does not exist, and get_results answers 404 for it, under
\* every interleaving with the background job.
C19_DeletionIsFinal ==
    \A t \in deleted :
        /\ t \notin DOMAIN tasks
        /\ files[ResultFile(t)] = "absent"
        /\ (resp.op = "get" /\ resp.id = t) => resp.code = 404

\* C20: every registry entry is created as processing, its status changes
\* at most once, from processing to completed or to failed, a completed or
\* failed status never changes, and no other status is ever held.
C20_StatusLifecycle ==
    /\ [](\A t \in DOMAIN tasks : tasks[t].status \in {"processing", "completed", "failed"})
    /\ [][\A t \in TaskIds :
              /\ (t \notin DOMAIN tasks /\ t \in DOMAIN tasks')
                     => tasks'[t].status = "processing"
              /\ (t \in DOMAIN tasks /\ t \in DOMAIN tasks'
                      /\ tasks'[t].status # tasks[t].status)
                     => /\ tasks[t].status = "processing"
                        /\ tasks'[t].status \in {"completed", "failed"}]_vars

\* C21: in every state of the web layer a completed entry names its own
\* result file, and that file exists and is written to its end; so
\* get_results never answers 'result file not found' (nor fails to read
\* the file) for a task.
C21_CompletedHasFile ==
    /\ \A t \in DOMAIN tasks :
           tasks[t].status = "completed"
               => /\ tasks[t].file = <<ResultFile(t)>>
                  /\ files[ResultFile(t)] = "full"
    /\ resp.op = "get" => ~(resp.code = 404 /\ resp.status = "no_file") /\ resp.code # 500

\* A task deleted while processing, completed by its job afterwards, and
\* read.
C21_Witness ==
    \E t \in deleted :
        /\ t \in DOMAIN tasks
        /\ tasks[t].status = "completed"
        /\ resp = Answer("get", t, 200, "completed")
        /\ \E u \in TaskIds \ {t} : u \in deleted /\ u \notin DOMAIN tasks /\ job[u] = "ended"

====
